---------------------------- MODULE Spec2Model ----------------------------
(***************************************************************************)
(* Model of the three status tools of sonarcloud-cpp-minimal:              *)
(*   tools/status.py           combined check (runs the two below)         *)
(*   tools/ci_check.py         GitHub Actions CI status                    *)
(*   tools/sonarcloud_check.py SonarCloud status                           *)
(* Each tool is a straight-line script; one action per step of its main.   *)
(* Python values: an unbound local or a value not yet returned is the      *)
(* empty sequence <<>>, a bound one the one-element sequence <<v>>.        *)
(***************************************************************************)
EXTENDS Integers, Sequences, FiniteSets, TLC

VARIABLES
    \* ---- tools/status.py main
    skip_ci,          \* args.skip_ci
    skip_sonarcloud,  \* args.skip_sonarcloud
    st_pc,            \* position in status.py main
    exit_codes,       \* the list exit_codes
    ci_exit,          \* local ci_exit (<<>> while unbound)
    sonar_exit,       \* local sonar_exit (<<>> while unbound)
    st_out,           \* lines printed on stdout
    st_err,           \* lines printed on stderr
    st_ret,           \* return value of main (<<>> until it returns)
    \* ---- tools/ci_check.py main
    remote,           \* the origin remote of the working copy
    repo_owner,       \* CIChecker.repo_owner (<<>> for None)
    repo_name,        \* CIChecker.repo_name (<<>> for None)
    args_limit,       \* args.limit
    ci_pc,            \* position in ci_check.py main
    runs,             \* runs of format_status_report (<<>> until fetched)
    latest,           \* runs of main, the limit-1 fetch (<<>> until fetched)
    ci_report,        \* the printed report (<<>> until printed)
    ci_err,           \* lines printed on stderr
    ci_ret,           \* exit code of the process (<<>> while it runs)
    \* ---- CIChecker.format_run_status applied to one record
    fr_run,           \* the run record
    fr_line,          \* the formatted line (<<>> until formatted)
    \* ---- tools/sonarcloud_check.py main
    args_component,   \* args.component (<<>> for None)
    sn_pc,            \* position in sonarcloud_check.py main
    analysis,         \* get_recent_analysis() (<<>> until fetched)
    qg_status,        \* the gate status of format_status_report
    measures,         \* get_project_measures()
    coverage_detail,  \* get_coverage_detail(component)
    sn_report,        \* the printed report (<<>> until printed)
    qg_exit,          \* the gate status main fetches for the exit code
    sn_err,           \* lines printed on stderr
    sn_ret,           \* exit code of the process (<<>> while it runs)
    \* ---- the coverage formatting applied to one measure
    cv_level,         \* "project" or "file"
    cv_in,            \* the coverage measure
    cv_out            \* the formatted coverage (<<>> until formatted)

stVars == <<skip_ci, skip_sonarcloud, st_pc, exit_codes, ci_exit, sonar_exit,
            st_out, st_err, st_ret>>

ciVars == <<remote, repo_owner, repo_name, args_limit, ci_pc, runs, latest,
            ci_report, ci_err, ci_ret>>

frVars == <<fr_run, fr_line>>

snVars == <<args_component, sn_pc, analysis, qg_status, measures,
            coverage_detail, sn_report, qg_exit, sn_err, sn_ret>>

cvVars == <<cv_level, cv_in, cv_out>>

vars == <<stVars, ciVars, frVars, snVars, cvVars>>

(***************************************************************************)
(* Bounds                                                                  *)
(***************************************************************************)
\* largest return code a child process is given in the model
MaxReturnCode == 2

\* most runs the CI provider lists in the model (and largest --limit)
MaxRuns == 2

\* most file entries the quality provider returns in the model
MaxFiles == 2

(***************************************************************************)
(* Python str operations on texts held as sequences of one-character       *)
(* strings                                                                 *)
(***************************************************************************)
\* s.startswith(p)
StartsWith(s, p) == Len(p) <= Len(s) /\ SubSeq(s, 1, Len(p)) = p

\* the tail of s from (1-based) position i
Tail_from(s, i) == SubSeq(s, i, Len(s))

\* sub in s
Contains(s, sub) ==
    \E i \in 1..(Len(s) - Len(sub) + 1) : SubSeq(s, i, i + Len(sub) - 1) = sub

\* s.replace(old, new): every non-overlapping occurrence, left to right
RECURSIVE Replace(_, _, _)
Replace(s, old, new) ==
    IF Len(s) < Len(old) THEN s
    ELSE IF StartsWith(s, old)
         THEN new \o Replace(Tail_from(s, Len(old) + 1), old, new)
         ELSE <<s[1]>> \o Replace(Tail_from(s, 2), old, new)

\* s.split(sep), sep not empty: the list of pieces, always at least one
RECURSIVE SplitFrom(_, _, _)
SplitFrom(s, sep, piece) ==
    IF s = <<>> THEN <<piece>>
    ELSE IF StartsWith(s, sep)
         THEN <<piece>> \o SplitFrom(Tail_from(s, Len(sep) + 1), sep, <<>>)
         ELSE SplitFrom(Tail_from(s, 2), sep, Append(piece, s[1]))

Split(s, sep) == SplitFrom(s, sep, <<>>)

IsSpace(c) == c \in {" ", "\n"}

\* s.strip()
RECURSIVE LStrip(_)
LStrip(s) == IF s # <<>> /\ IsSpace(s[1]) THEN LStrip(Tail_from(s, 2)) ELSE s

RECURSIVE RStrip(_)
RStrip(s) ==
    IF s # <<>> /\ IsSpace(s[Len(s)]) THEN RStrip(SubSeq(s, 1, Len(s) - 1)) ELSE s

Strip(s) == LStrip(RStrip(s))

\* sep.join(list)
RECURSIVE Join(_, _)
Join(list, sep) ==
    IF list = <<>> THEN <<>>
    ELSE IF Len(list) = 1 THEN list[1]
    ELSE list[1] \o sep \o Join(Tail(list), sep)

(***************************************************************************)
(* tools/ci_check.py: CIChecker._detect_repo                               *)
(***************************************************************************)
\* the literals of _detect_repo
GITHUB_COM       == <<"g", "i", "t", "h", "u", "b", ".", "c", "o", "m">>
GIT_AT_GITHUB    == <<"g", "i", "t", "@", "g", "i", "t", "h", "u", "b", ".", "c", "o", "m", ":">>
GITHUB_COM_SLASH == <<"g", "i", "t", "h", "u", "b", ".", "c", "o", "m", "/">>
DOT_GIT          == <<".", "g", "i", "t">>
SLASH            == <<"/">>

\* most path segments of a remote URL in the model
MaxSegments == 3

\* host names and path segments the origin remote is drawn from
Hosts == {GITHUB_COM, <<"g", "i", "t", "l", "a", "b", ".", "c", "o", "m">>, <<"m", "y", "g", "i", "t", "h", "u", "b", ".", "c", "o", "m">>}
Segments == {<<"o">>, <<"r">>, <<>>, <<".", "g", "i", "t", "h", "u", "b">>}

SegLists == UNION {[1..n -> Segments] : n \in 0..MaxSegments}

\* The origin remote of the working copy: none configured, or an SSH-style
\* (git@host:path) or HTTPS-style (https://host/path) URL.
Remotes ==
    {[configured |-> FALSE, form |-> "ssh", host |-> GITHUB_COM, segs |-> <<>>,
      dotgit |-> FALSE]}
    \cup [configured : {TRUE}, form : {"ssh", "https"}, host : Hosts,
          segs : SegLists, dotgit : BOOLEAN]

\* what `git remote get-url origin` prints for a configured remote
RemoteStdout(r) ==
    (IF r.form = "ssh" THEN <<"g", "i", "t", "@">> \o r.host \o <<":">>
                       ELSE <<"h", "t", "t", "p", "s", ":", "/", "/">> \o r.host \o <<"/">>)
    \o Join(r.segs, SLASH)
    \o (IF r.dotgit THEN DOT_GIT ELSE <<>>)
    \o <<"\n">>

\* lines 43-46: parts of a URL that holds 'github.com', for both URL forms;
\* only called when one of the two forms matches
ParseParts(remote_url) ==
    IF StartsWith(remote_url, GIT_AT_GITHUB)
      THEN Split(Replace(Replace(remote_url, GIT_AT_GITHUB, <<>>),
                         DOT_GIT, <<>>), SLASH)
      ELSE LET pieces == Split(remote_url, GITHUB_COM_SLASH)
           IN  Split(Replace(pieces[Len(pieces)], DOT_GIT, <<>>), SLASH)

\* _detect_repo, lines 31-58. kind is "ok" (owner and name set),
\* "CalledProcessError" or "ValueError" (both caught at line 55: two lines on
\* stderr, sys.exit(1)), or "IndexError" (parts[1] at line 51 with a single
\* part: not caught in _detect_repo; repo_owner is already set by line 50).
detect_repo(r) ==
    IF ~r.configured
      THEN [kind |-> "CalledProcessError", owner |-> <<>>, name |-> <<>>]
    ELSE
      LET remote_url == Strip(RemoteStdout(r)) IN
      IF ~Contains(remote_url, GITHUB_COM)
        THEN [kind |-> "ValueError", owner |-> <<>>, name |-> <<>>]
      ELSE IF ~StartsWith(remote_url, GIT_AT_GITHUB)
              /\ ~Contains(remote_url, GITHUB_COM_SLASH)
        THEN [kind |-> "ValueError", owner |-> <<>>, name |-> <<>>]
      ELSE
        LET parts == ParseParts(remote_url) IN
        IF Len(parts) < 2
          THEN [kind |-> "IndexError", owner |-> <<parts[1]>>, name |-> <<>>]
          ELSE [kind |-> "ok", owner |-> <<parts[1]>>, name |-> <<parts[2]>>]

(***************************************************************************)
(* tools/ci_check.py: run records and CIChecker.format_run_status          *)
(***************************************************************************)
\* A JSON field of a run record is a string, null (None) or not there.
NULL   == "<null>"
ABSENT == "<absent>"

\* dict.get(key, default)
Get(value, default) == IF value = ABSENT THEN default ELSE value

ISO_Z == "2024-01-02T03:04:05Z"

Statuses    == {"completed", "in_progress", "queued", "waiting", NULL, ABSENT}
Conclusions == {"success", "failure", "cancelled", "skipped", "timed_out", "",
                NULL, ABSENT}
CreatedAts  == {ISO_Z, "yesterday", NULL, ABSENT}

\* every record format_run_status is applied to on its own
AllRunRecords ==
    [status : Statuses, conclusion : Conclusions, createdAt : CreatedAts]

\* the records the provider lists in a run of main
RunRecords == [status : Statuses, conclusion : Conclusions, createdAt : {ISO_Z}]

\* str.upper() of the strings a status or conclusion can be
Upper(str) ==
    CASE str = "unknown"     -> "UNKNOWN"
      [] str = "waiting"     -> "WAITING"
      [] str = "timed_out"   -> "TIMED_OUT"
      [] str = "success"     -> "SUCCESS"
      [] str = "failure"     -> "FAILURE"
      [] str = "cancelled"   -> "CANCELLED"
      [] str = "skipped"     -> "SKIPPED"
      [] str = "completed"   -> "COMPLETED"
      [] str = "in_progress" -> "IN_PROGRESS"
      [] str = "queued"      -> "QUEUED"
      [] str = ""            -> ""

\* lines 117-123: the timestamp reformatted, or passed through when it does
\* not parse (None ends in the bare except too and prints as "None")
FormatTime(created_at) ==
    IF created_at = ISO_Z THEN "2024-01-02 03:04:05"
    ELSE IF created_at = NULL THEN "None"
    ELSE created_at

Line(icon, text, run) ==
    [raised |-> FALSE, icon |-> icon, text |-> text,
     time |-> FormatTime(Get(run.createdAt, ""))]

\* .upper() on None: AttributeError
Raised == [raised |-> TRUE, icon |-> "", text |-> "", time |-> ""]

\* format_run_status, lines 85-130: icon and status text of one run
format_run_status(run) ==
    LET status     == Get(run.status, "unknown")
        conclusion == Get(run.conclusion, "unknown")
    IN  IF status = "completed" THEN
          IF conclusion = "success" THEN Line("check", "SUCCESS", run)
          ELSE IF conclusion = "failure" THEN Line("cross", "FAILED", run)
          ELSE IF conclusion = "cancelled" THEN Line("warning", "CANCELLED", run)
          ELSE IF conclusion = "skipped" THEN Line("warning", "SKIPPED", run)
          ELSE IF conclusion = NULL THEN Raised
          ELSE Line("question", Upper(conclusion), run)
        ELSE IF status = "in_progress" THEN Line("progress", "IN PROGRESS", run)
        ELSE IF status = "queued" THEN Line("hourglass", "QUEUED", run)
        ELSE IF status = NULL THEN Raised
        ELSE Line("question", Upper(status), run)

(***************************************************************************)
(* Each specification runs one tool; the variables of the others rest.     *)
(***************************************************************************)
IdleStatus ==
    /\ skip_ci = FALSE
    /\ skip_sonarcloud = FALSE
    /\ st_pc = "idle"
    /\ exit_codes = <<>>
    /\ ci_exit = <<>>
    /\ sonar_exit = <<>>
    /\ st_out = <<>>
    /\ st_err = <<>>
    /\ st_ret = <<>>

IdleFormatRun ==
    /\ fr_run = [status |-> ABSENT, conclusion |-> ABSENT, createdAt |-> ABSENT]
    /\ fr_line = <<>>

IdleCI ==
    /\ remote = [configured |-> FALSE, form |-> "ssh", host |-> GITHUB_COM,
                 segs |-> <<>>, dotgit |-> FALSE]
    /\ repo_owner = <<>>
    /\ repo_name = <<>>
    /\ args_limit = 1
    /\ ci_pc = "idle"
    /\ runs = <<>>
    /\ latest = <<>>
    /\ ci_report = <<>>
    /\ ci_err = <<>>
    /\ ci_ret = <<>>

IdleSonar ==
    /\ args_component = <<>>
    /\ sn_pc = "idle"
    /\ analysis = <<>>
    /\ qg_status = <<>>
    /\ measures = <<>>
    /\ coverage_detail = <<>>
    /\ sn_report = <<>>
    /\ qg_exit = <<>>
    /\ sn_err = <<>>
    /\ sn_ret = <<>>

IdleCoverage ==
    /\ cv_level = "project"
    /\ cv_in = [kind |-> "absent", whole |-> 0, tenth |-> 0]
    /\ cv_out = <<>>

(***************************************************************************)
(* tools/ci_check.py: format_status_report and main                        *)
(***************************************************************************)
RECURSIVE Count(_, _)
\* how many runs of the list have the conclusion (run.get('conclusion', ''))
Count(list, conclusion) ==
    IF list = <<>> THEN 0
    ELSE (IF Get(list[1].conclusion, "") = conclusion THEN 1 ELSE 0)
         + Count(Tail(list), conclusion)

\* format_status_report, lines 144-179, on the fetched runs: the report, or
\* the exception format_run_status raised in the loop
format_status_report(fetched) ==
    LET listed == [i \in 1..Len(fetched) |-> format_run_status(fetched[i])]
        s == Count(fetched, "success")
        f == Count(fetched, "failure")
    IN  IF fetched = <<>>
          THEN [raised |-> FALSE, no_runs |-> TRUE, listed |-> <<>>,
                success_count |-> 0, failure_count |-> 0, other_count |-> 0]
        ELSE IF \E i \in 1..Len(listed) : listed[i].raised
          THEN [raised |-> TRUE, no_runs |-> FALSE, listed |-> <<>>,
                success_count |-> 0, failure_count |-> 0, other_count |-> 0]
        ELSE [raised |-> FALSE, no_runs |-> FALSE, listed |-> listed,
              success_count |-> s, failure_count |-> f,
              other_count |-> Len(fetched) - s - f]

\* lines 216-220: the exit code from the limit-1 fetch
\* (runs[0].get('conclusion') == 'failure'; None and a missing key are not)
ExitCodeOf(fetched) ==
    IF fetched # <<>> /\ fetched[1].conclusion = "failure" THEN 1 ELSE 0

\* what gh run list --limit n can answer
RunLists(n) == UNION {[1..k -> RunRecords] : k \in 0..n}

\* the remotes a run of main starts from
MainRemotes ==
    {r \in Remotes : \/ ~r.configured
                     \/ /\ r.host = GITHUB_COM
                        /\ r.segs = << <<"o">>, <<"r">> >>
                        /\ r.dotgit}

\* main after parse_args, line 203
InitCIWith(remotes) ==
    /\ remote \in remotes
    /\ repo_owner = <<>>
    /\ repo_name = <<>>
    /\ args_limit \in 1..MaxRuns
    /\ ci_pc = "construct"
    /\ runs = <<>>
    /\ latest = <<>>
    /\ ci_report = <<>>
    /\ ci_err = <<>>
    /\ ci_ret = <<>>

InitCI == IdleStatus /\ IdleFormatRun /\ IdleSonar /\ IdleCoverage /\ InitCIWith(MainRemotes)

\* line 204: CIChecker() runs _detect_repo. sys.exit(1) ends the process
\* (SystemExit is no Exception); an IndexError is caught at line 222.
CIConstruct ==
    /\ ci_pc = "construct"
    /\ LET d == detect_repo(remote) IN
         /\ repo_owner' = d.owner
         /\ repo_name' = d.name
         /\ IF d.kind = "ok"
              THEN /\ ci_pc' = "check_gh"
                   /\ UNCHANGED <<ci_err, ci_ret>>
            ELSE IF d.kind = "IndexError"
              THEN /\ ci_pc' = "done"
                   /\ ci_err' = ci_err \o <<"Error: list index out of range",
                                            "Traceback">>
                   /\ ci_ret' = <<1>>
            ELSE /\ ci_pc' = "done"
                 /\ ci_err' = ci_err \o
                      <<"Error: Unable to detect GitHub repository",
                        "Make sure you're in a git repository with a GitHub remote.">>
                 /\ ci_ret' = <<1>>
    /\ UNCHANGED <<remote, args_limit, runs, latest, ci_report>>
    /\ UNCHANGED <<stVars, frVars, snVars, cvVars>>

\* lines 207-210: check_gh_cli
CICheckGh ==
    /\ ci_pc = "check_gh"
    /\ \E available \in BOOLEAN :
         IF available
           THEN /\ ci_pc' = "fetch_report"
                /\ UNCHANGED <<ci_err, ci_ret>>
           ELSE /\ ci_pc' = "done"
                /\ ci_err' = ci_err \o <<"Error: gh CLI not found",
                                         "Install with: https://cli.github.com/">>
                /\ ci_ret' = <<1>>
    /\ UNCHANGED <<remote, repo_owner, repo_name, args_limit, runs, latest,
                   ci_report>>
    /\ UNCHANGED <<stVars, frVars, snVars, cvVars>>

\* get_workflow_runs_gh failing, lines 80-83
GhFailed ==
    /\ ci_pc' = "done"
    /\ ci_err' = ci_err \o <<"Error running gh CLI",
                             "Make sure gh CLI is installed and authenticated.">>
    /\ ci_ret' = <<1>>

\* line 144: the fetch of format_status_report (limit args.limit)
CIFetchReport ==
    /\ ci_pc = "fetch_report"
    /\ \/ /\ GhFailed
          /\ UNCHANGED runs
       \/ /\ \E rs \in RunLists(args_limit) : runs' = <<rs>>
          /\ ci_pc' = "format"
          /\ UNCHANGED <<ci_err, ci_ret>>
    /\ UNCHANGED <<remote, repo_owner, repo_name, args_limit, latest, ci_report>>
    /\ UNCHANGED <<stVars, frVars, snVars, cvVars>>

\* lines 146-179 and 212-213: the report is built and printed; an exception
\* of format_run_status ends in the handler of main, lines 222-226
CIReport ==
    /\ ci_pc = "format"
    /\ LET rep == format_status_report(runs[1]) IN
         IF rep.raised
           THEN /\ ci_pc' = "done"
                /\ ci_err' = ci_err \o
                     <<"Error: 'NoneType' object has no attribute 'upper'",
                       "Traceback">>
                /\ ci_ret' = <<1>>
                /\ UNCHANGED ci_report
           ELSE /\ ci_pc' = "fetch_latest"
                /\ ci_report' = <<rep>>
                /\ UNCHANGED <<ci_err, ci_ret>>
    /\ UNCHANGED <<remote, repo_owner, repo_name, args_limit, runs, latest>>
    /\ UNCHANGED <<stVars, frVars, snVars, cvVars>>

\* line 216: the second fetch (limit 1); the provider may have moved on
CIFetchLatest ==
    /\ ci_pc = "fetch_latest"
    /\ \/ /\ GhFailed
          /\ UNCHANGED latest
       \/ /\ \E rs \in RunLists(1) : latest' = <<rs>>
          /\ ci_pc' = "decide"
          /\ UNCHANGED <<ci_err, ci_ret>>
    /\ UNCHANGED <<remote, repo_owner, repo_name, args_limit, runs, ci_report>>
    /\ UNCHANGED <<stVars, frVars, snVars, cvVars>>

\* lines 217-220
CIDecide ==
    /\ ci_pc = "decide"
    /\ ci_ret' = <<ExitCodeOf(latest[1])>>
    /\ ci_pc' = "done"
    /\ UNCHANGED <<remote, repo_owner, repo_name, args_limit, runs, latest,
                   ci_report, ci_err>>
    /\ UNCHANGED <<stVars, frVars, snVars, cvVars>>

NextCI ==
    \/ CIConstruct
    \/ CICheckGh
    \/ CIFetchReport
    \/ CIReport
    \/ CIFetchLatest
    \/ CIDecide

SpecCI == InitCI /\ [][NextCI]_vars

\* the construction alone, from every remote
InitDetect == IdleStatus /\ IdleFormatRun /\ IdleSonar /\ IdleCoverage /\ InitCIWith(Remotes)

SpecDetect == InitDetect /\ [][CIConstruct]_vars

\* format_run_status on its own, from every record
InitFormatRun ==
    /\ IdleStatus /\ IdleCI /\ IdleSonar /\ IdleCoverage
    /\ fr_run \in AllRunRecords
    /\ fr_line = <<>>

FormatRun ==
    /\ fr_line = <<>>
    /\ fr_line' = <<format_run_status(fr_run)>>
    /\ UNCHANGED <<fr_run, stVars, ciVars, snVars, cvVars>>

SpecFormatRun == InitFormatRun /\ [][FormatRun]_vars

(***************************************************************************)
(* Properties of tools/ci_check.py                                         *)
(***************************************************************************)
InList(x, s) == \E i \in 1..Len(s) : s[i] = x

\* the provider answered every fetch main made (no failure of gh, of the
\* remote detection or of the gh availability check)
ProviderAnswered ==
    /\ runs # <<>>
    /\ ~InList("Error running gh CLI", ci_err)

\* C4: once main has ended with the provider having answered with run lists,
\* the limit-1 fetch was made and the exit code is 1 exactly when its first
\* record has conclusion 'failure', 0 otherwise; with zero runs fetched the
\* report is "No workflow runs found." and the exit code is 0.
C4_ExitCodeFromLatestRun ==
    (ci_pc = "done" /\ ProviderAnswered) =>
        /\ latest # <<>>
        /\ ci_ret = <<IF latest[1] # <<>> /\ latest[1][1].conclusion = "failure"
                        THEN 1 ELSE 0>>
        /\ latest[1] = <<>> => ci_ret = <<0>>
        /\ runs[1] = <<>> => (ci_report # <<>> /\ ci_report[1].no_runs)

\* the conclusions and statuses format_run_status knows
KnownConclusions == {"success", "failure", "cancelled", "skipped"}
KnownStatuses == {"completed", "in_progress", "queued"}

\* C6: format_run_status never raises; for a completed run conclusion
\* 'success' gives the success icon and label, 'failure' the failure icon and
\* label, 'cancelled' and 'skipped' the warning marker with their label; an
\* unrecognized status, or an unrecognized conclusion of a completed run
\* (absent and null included), gives the unknown marker.
C6_FormatRunStatusTotal ==
    fr_line # <<>> =>
      LET l == fr_line[1]
          st == fr_run.status
          c == fr_run.conclusion
      IN  /\ ~l.raised
          /\ (st = "completed" /\ c = "success") =>
                (l.icon = "check" /\ l.text = "SUCCESS")
          /\ (st = "completed" /\ c = "failure") =>
                (l.icon = "cross" /\ l.text = "FAILED")
          /\ (st = "completed" /\ c = "cancelled") =>
                (l.icon = "warning" /\ l.text = "CANCELLED")
          /\ (st = "completed" /\ c = "skipped") =>
                (l.icon = "warning" /\ l.text = "SKIPPED")
          /\ (st = "completed" /\ c \notin KnownConclusions) =>
                l.icon = "question"
          /\ st \notin KnownStatuses => l.icon = "question"

\* owner/repository is exactly two non-empty path segments on github.com
WellFormedRemote ==
    /\ remote.configured
    /\ remote.host = GITHUB_COM
    /\ Len(remote.segs) = 2
    /\ remote.segs[1] # <<>>
    /\ remote.segs[2] # <<>>

\* C8: after the construction of CIChecker, either the remote is an SSH- or
\* HTTPS-style github.com URL of exactly one owner and one repository segment
\* and repo_owner/repo_name are those two segments, or the process has ended
\* with exit code 1 on the configuration-error path (error and guidance on
\* stderr).
C8_DetectRepoExactPair ==
    ci_pc \notin {"construct", "idle"} =>
        IF ci_ret = <<>>
          THEN /\ WellFormedRemote
               /\ repo_owner = <<remote.segs[1]>>
               /\ repo_name = <<remote.segs[2]>>
          ELSE /\ ci_ret = <<1>>
               /\ InList("Error: Unable to detect GitHub repository", ci_err)
               /\ InList("Make sure you're in a git repository with a GitHub remote.",
                         ci_err)

\* how many listed runs are displayed with the label
RECURSIVE Labelled(_, _)
Labelled(listed, text) ==
    IF listed = <<>> THEN 0
    ELSE (IF listed[1].text = text THEN 1 ELSE 0) + Labelled(Tail(listed), text)

\* C9: in a printed report that lists runs, Successful is the number of
\* listed runs displayed SUCCESS, Failed the number displayed FAILED, Other
\* the number displayed with any other label, and the three sum to the
\* number of runs listed.
C9_SummaryMatchesList ==
    (ci_report # <<>> /\ ~ci_report[1].no_runs) =>
      LET rep == ci_report[1] IN
        /\ Len(rep.listed) = Len(runs[1])
        /\ rep.success_count = Labelled(rep.listed, "SUCCESS")
        /\ rep.failure_count = Labelled(rep.listed, "FAILED")
        /\ rep.other_count = Len(rep.listed) - Labelled(rep.listed, "SUCCESS")
                                - Labelled(rep.listed, "FAILED")
        /\ rep.success_count + rep.failure_count + rep.other_count
             = Len(rep.listed)

\* C11: once main has ended after printing its report and after the limit-1
\* fetch was answered, the exit code is 1 exactly when the first run listed
\* in the printed report has conclusion 'failure', whatever the provider did
\* between the two fetches.
C11_ExitCodeAgreesWithReport ==
    (ci_pc = "done" /\ ci_report # <<>> /\ latest # <<>>) =>
        ((ci_ret = <<1>>)
           <=> (runs[1] # <<>> /\ runs[1][1].conclusion = "failure"))

(***************************************************************************)
(* tools/sonarcloud_check.py: coverage formatting                          *)
(***************************************************************************)
\* line 124 and line 160: cov >= 80 is good, cov >= 60 is warn
GoodCoverage == 80
WarnCoverage == 60

\* largest coverage percentage of the model
MaxPercent == 100

\* A coverage measure of the API: not among the measures ("absent"), there
\* without a value ("novalue"), or there with a value, a decimal string in
\* tenths of a percent such as "79.9" (whole 79, tenth 9).
NoMeasure    == [kind |-> "absent", whole |-> 0, tenth |-> 0]
NoValue      == [kind |-> "novalue", whole |-> 0, tenth |-> 0]
Value(w, t)  == [kind |-> "value", whole |-> w, tenth |-> t]

CoverageMeasures ==
    {NoMeasure, NoValue}
    \cup {Value(w, t) : w \in 0..(MaxPercent - 1), t \in 0..9}
    \cup {Value(MaxPercent, 0)}

\* float(str) of a decimal string, in tenths of a percent
ParseFloat(v) == v.whole * 10 + v.tenth

\* cov_icon: the tier of a coverage value given in tenths
cov_icon(tenths) ==
    IF tenths >= GoodCoverage * 10 THEN "good"
    ELSE IF tenths >= WarnCoverage * 10 THEN "warn"
    ELSE "poor"

\* Project level, lines 54 and 121-127: a measure without a value is given
\* the value '0' by get_project_measures; only a measure that is not there
\* reaches 'N/A' and "No data". tenths is the number shown (-1: none).
project_coverage(m) ==
    IF m.kind = "absent"
      THEN [raised |-> FALSE, tier |-> "nodata", tenths |-> 0 - 1]
    ELSE LET cov_val == IF m.kind = "novalue" THEN 0 ELSE ParseFloat(m)
         IN  [raised |-> FALSE, tier |-> cov_icon(cov_val), tenths |-> cov_val]

\* File level, lines 155-165: m.get('value') is None for a measure without
\* a value, the key 'coverage' is in file_measures, and float(None) raises
\* TypeError.
file_coverage(m) ==
    IF m.kind = "absent"
      THEN [raised |-> FALSE, tier |-> "nodata", tenths |-> 0 - 1]
    ELSE IF m.kind = "novalue"
      THEN [raised |-> TRUE, tier |-> "", tenths |-> 0 - 1]
    ELSE [raised |-> FALSE, tier |-> cov_icon(ParseFloat(m)),
          tenths |-> ParseFloat(m)]

InitCoverage ==
    /\ IdleStatus /\ IdleCI /\ IdleFormatRun /\ IdleSonar
    /\ cv_level \in {"project", "file"}
    /\ cv_in \in CoverageMeasures
    /\ cv_out = <<>>

FormatCoverage ==
    /\ cv_out = <<>>
    /\ cv_out' = <<IF cv_level = "project" THEN project_coverage(cv_in)
                                           ELSE file_coverage(cv_in)>>
    /\ UNCHANGED <<cv_level, cv_in, stVars, ciVars, frVars, snVars>>

SpecCoverage == InitCoverage /\ [][FormatCoverage]_vars

(***************************************************************************)
(* tools/sonarcloud_check.py: the file coverage lines and their order      *)
(***************************************************************************)
\* ord() of the characters of the lines
Ord(c) ==
    CASE c = " " -> 32 [] c = "%" -> 37 [] c = "." -> 46 [] c = "/" -> 47
      [] c = ":" -> 58 [] c = "U" -> 85 [] c = "a" -> 97 [] c = "b" -> 98
      [] c = "h" -> 104 [] c = "k" -> 107 [] c = "n" -> 110 [] c = "o" -> 111
      [] c = "w" -> 119

OrdSeq(text) == [i \in 1..Len(text) |-> Ord(text[i])]

\* the code points of the three icons: U+2705, U+26A0 U+FE0F, U+274C
IconCodes(tier) ==
    CASE tier = "good" -> <<9989>>
      [] tier = "warn" -> <<9888, 65039>>
      [] tier = "poor" -> <<10060>>
      [] tier = "nodata" -> <<10060>>

\* the decimal digits of a natural number, as code points
RECURSIVE Digits(_)
Digits(n) == IF n < 10 THEN <<48 + n>> ELSE Digits(n \div 10) \o <<48 + (n % 10)>>

UNKNOWN_PATH == <<"U", "n", "k", "n", "o", "w", "n">>

\* One line of the file section, lines 163 and 165, as the code points that
\* differ between two lines of a group:
\*   "  {cov_icon} {path}: {cov:.1f}% (...)"  and  "  X {path}: No coverage data"
\* (lines_to_cover and uncovered_lines are not among the measures of the
\* model's entries, so "(? lines, ? uncovered)" ends every line with data)
LineText(tier, path, tenths) ==
    <<32, 32>> \o IconCodes(tier) \o <<32>> \o OrdSeq(path) \o <<58, 32>>
    \o (IF tier = "nodata" THEN <<>>
        ELSE Digits(tenths \div 10) \o <<46>> \o Digits(tenths % 10) \o <<37>>)

\* str < str of Python: by code point, a proper prefix first
RECURSIVE StrLess(_, _)
StrLess(a, b) ==
    IF b = <<>> THEN FALSE
    ELSE IF a = <<>> THEN TRUE
    ELSE IF a[1] # b[1] THEN a[1] < b[1]
    ELSE StrLess(Tail(a), Tail(b))

\* insertion of a line into a sorted list, after its equals (sorted is stable)
RECURSIVE Insert(_, _)
Insert(line, sorted) ==
    IF sorted = <<>> THEN <<line>>
    ELSE IF StrLess(line.text, sorted[1].text)
           THEN <<line>> \o sorted
           ELSE <<sorted[1]>> \o Insert(line, Tail(sorted))

\* sorted(list) of the formatted lines, lines 168 and 174
RECURSIVE Sorted(_)
Sorted(list) ==
    IF list = <<>> THEN <<>>
    ELSE Insert(list[Len(list)], Sorted(SubSeq(list, 1, Len(list) - 1)))

\* a file entry of measures/component_tree: path (<<>> when the key is not
\* there) and its coverage measure
Paths == {<<"a">>, <<"a", ".", "h">>, <<"b">>}
FileCoverages == {NoMeasure, NoValue, Value(50, 0), Value(70, 0), Value(90, 0)}
FileEntries ==
    [path : {<<p>> : p \in Paths} \cup {<<>>}, coverage : FileCoverages]

\* the line of one entry, lines 155-165
file_line(file_info) ==
    LET path == IF file_info.path = <<>> THEN UNKNOWN_PATH ELSE file_info.path[1]
        c == file_coverage(file_info.coverage)
    IN  [raised |-> c.raised,
         kind |-> IF c.tier = "nodata" THEN "without" ELSE "with",
         tier |-> c.tier, path |-> path, tenths |-> c.tenths,
         text |-> IF c.raised THEN <<>> ELSE LineText(c.tier, path, c.tenths)]

SelectKind(lines, kind) == SelectSeq(lines, LAMBDA l : l.kind = kind)

Blank == [raised |-> FALSE, kind |-> "blank", tier |-> "", path |-> <<>>,
          tenths |-> 0 - 1, text |-> <<>>]

\* lines 145-182: the file section of the report
file_section(detail) ==
    LET lines == [i \in 1..Len(detail) |-> file_line(detail[i])]
        files_with_coverage == SelectKind(lines, "with")
        files_without_coverage == SelectKind(lines, "without")
    IN  IF \E i \in 1..Len(lines) : lines[i].raised
          THEN [raised |-> TRUE, has_files |-> TRUE, lines |-> <<>>,
                total |-> 0, with_coverage |-> 0, without_coverage |-> 0]
        ELSE IF detail = <<>>
          THEN [raised |-> FALSE, has_files |-> FALSE, lines |-> <<>>,
                total |-> 0, with_coverage |-> 0, without_coverage |-> 0]
        ELSE [raised |-> FALSE, has_files |-> TRUE,
              lines |-> Sorted(files_with_coverage)
                        \o (IF files_with_coverage # <<>>
                               /\ files_without_coverage # <<>>
                              THEN <<Blank>> ELSE <<>>)
                        \o Sorted(files_without_coverage),
              total |-> Len(detail),
              with_coverage |-> Len(files_with_coverage),
              without_coverage |-> Len(files_without_coverage)]

(***************************************************************************)
(* tools/sonarcloud_check.py: format_status_report and main                *)
(***************************************************************************)
\* projectStatus.status as the API gives it (ABSENT: no such key)
GateStatuses == {"OK", "ERROR", "WARN", ABSENT}

\* line 111
status_icon(status) ==
    IF status = "OK" THEN "check" ELSE IF status = "ERROR" THEN "cross"
    ELSE "warning"

\* lines 216-218: qg_status.get('status') == 'ERROR'
GateExitCode(status) == IF status = "ERROR" THEN 1 ELSE 0

\* the project measures of the model: coverage and bugs
ProjectCoverages ==
    {NoMeasure, NoValue, Value(59, 9), Value(60, 0), Value(79, 9), Value(80, 0)}
BugCounts == {"0", "2"}
ProjectMeasures == [coverage : ProjectCoverages, bugs : BugCounts]

FileLists == UNION {[1..n -> FileEntries] : n \in 0..MaxFiles}

\* get_coverage_detail, lines 78-81: the entries whose path starts with the
\* component filter (c.get('path', '') is '' without a path)
FilterComponent(components, component_filter) ==
    IF component_filter = <<>> THEN components
    ELSE SelectSeq(components,
           LAMBDA c : StartsWith(IF c.path = <<>> THEN <<>> ELSE c.path[1],
                                 component_filter[1]))

\* format_status_report, lines 85-187
sonar_report(an, status, ms, detail) ==
    LET files == file_section(detail)
        shown == Get(status, "UNKNOWN")
    IN  [raised |-> files.raised,
         last_analysis |-> IF an = NULL THEN "" ELSE FormatTime(an) \o " UTC",
         gate_icon |-> status_icon(shown),
         gate_status |-> shown,
         coverage |-> project_coverage(ms.coverage),
         bugs_icon |-> IF ms.bugs = "0" THEN "check" ELSE "cross",
         files |-> files]

\* main after parse_args, line 209
InitSonar ==
    /\ IdleStatus /\ IdleCI /\ IdleFormatRun /\ IdleCoverage
    /\ args_component \in {<<>>, << <<"a">> >>}
    /\ sn_pc = "fetch_analysis"
    /\ analysis = <<>>
    /\ qg_status = <<>>
    /\ measures = <<>>
    /\ coverage_detail = <<>>
    /\ sn_report = <<>>
    /\ qg_exit = <<>>
    /\ sn_err = <<>>
    /\ sn_ret = <<>>

\* _get failing, lines 36-38: message on stderr and sys.exit(1)
TransportFailed ==
    /\ sn_pc' = "done"
    /\ sn_err' = sn_err \o <<"Error: Failed to communicate with SonarCloud API">>
    /\ sn_ret' = <<1>>

\* line 97: get_recent_analysis (None without analyses)
SnFetchAnalysis ==
    /\ sn_pc = "fetch_analysis"
    /\ \/ /\ TransportFailed
          /\ UNCHANGED analysis
       \/ /\ \E an \in {NULL, ISO_Z} : analysis' = <<an>>
          /\ sn_pc' = "fetch_gate"
          /\ UNCHANGED <<sn_err, sn_ret>>
    /\ UNCHANGED <<args_component, qg_status, measures, coverage_detail,
                   sn_report, qg_exit>>
    /\ UNCHANGED <<stVars, ciVars, frVars, cvVars>>

\* lines 109-110: get_quality_gate_status for the report
SnFetchGate ==
    /\ sn_pc = "fetch_gate"
    /\ \/ /\ TransportFailed
          /\ UNCHANGED qg_status
       \/ /\ \E status \in GateStatuses : qg_status' = <<status>>
          /\ sn_pc' = "fetch_measures"
          /\ UNCHANGED <<sn_err, sn_ret>>
    /\ UNCHANGED <<args_component, analysis, measures, coverage_detail,
                   sn_report, qg_exit>>
    /\ UNCHANGED <<stVars, ciVars, frVars, cvVars>>

\* line 116: get_project_measures
SnFetchMeasures ==
    /\ sn_pc = "fetch_measures"
    /\ \/ /\ TransportFailed
          /\ UNCHANGED measures
       \/ /\ \E ms \in ProjectMeasures : measures' = <<ms>>
          /\ sn_pc' = "fetch_detail"
          /\ UNCHANGED <<sn_err, sn_ret>>
    /\ UNCHANGED <<args_component, analysis, qg_status, coverage_detail,
                   sn_report, qg_exit>>
    /\ UNCHANGED <<stVars, ciVars, frVars, cvVars>>

\* line 146: get_coverage_detail(component)
SnFetchDetail ==
    /\ sn_pc = "fetch_detail"
    /\ \/ /\ TransportFailed
          /\ UNCHANGED coverage_detail
       \/ /\ \E components \in FileLists :
               coverage_detail' = <<FilterComponent(components, args_component)>>
          /\ sn_pc' = "format"
          /\ UNCHANGED <<sn_err, sn_ret>>
    /\ UNCHANGED <<args_component, analysis, qg_status, measures, sn_report,
                   qg_exit>>
    /\ UNCHANGED <<stVars, ciVars, frVars, cvVars>>

\* lines 85-187 and 211-212: the report is built and printed; the TypeError
\* of float(None) ends in the handler of main, lines 220-224
SnReport ==
    /\ sn_pc = "format"
    /\ LET rep == sonar_report(analysis[1], qg_status[1], measures[1],
                               coverage_detail[1]) IN
         IF rep.raised
           THEN /\ sn_pc' = "done"
                /\ sn_err' = sn_err \o
                     <<"Error: float() argument must be a string or a number",
                       "Traceback">>
                /\ sn_ret' = <<1>>
                /\ UNCHANGED sn_report
           ELSE /\ sn_pc' = "fetch_gate_exit"
                /\ sn_report' = <<rep>>
                /\ UNCHANGED <<sn_err, sn_ret>>
    /\ UNCHANGED <<args_component, analysis, qg_status, measures,
                   coverage_detail, qg_exit>>
    /\ UNCHANGED <<stVars, ciVars, frVars, cvVars>>

\* line 215: the second fetch of the gate status; the gate may have moved
SnFetchGateExit ==
    /\ sn_pc = "fetch_gate_exit"
    /\ \/ /\ TransportFailed
          /\ UNCHANGED qg_exit
       \/ /\ \E status \in GateStatuses : qg_exit' = <<status>>
          /\ sn_pc' = "decide"
          /\ UNCHANGED <<sn_err, sn_ret>>
    /\ UNCHANGED <<args_component, analysis, qg_status, measures,
                   coverage_detail, sn_report>>
    /\ UNCHANGED <<stVars, ciVars, frVars, cvVars>>

\* lines 216-218
SnDecide ==
    /\ sn_pc = "decide"
    /\ sn_ret' = <<GateExitCode(qg_exit[1])>>
    /\ sn_pc' = "done"
    /\ UNCHANGED <<args_component, analysis, qg_status, measures,
                   coverage_detail, sn_report, qg_exit, sn_err>>
    /\ UNCHANGED <<stVars, ciVars, frVars, cvVars>>

NextSonar ==
    \/ SnFetchAnalysis
    \/ SnFetchGate
    \/ SnFetchMeasures
    \/ SnFetchDetail
    \/ SnReport
    \/ SnFetchGateExit
    \/ SnDecide

SpecSonar == InitSonar /\ [][NextSonar]_vars

(***************************************************************************)
(* Properties of tools/sonarcloud_check.py                                 *)
(***************************************************************************)
\* the quality provider answered every request main made
SonarAnswered ==
    /\ qg_status # <<>>
    /\ ~InList("Error: Failed to communicate with SonarCloud API", sn_err)

\* C5: once main has ended with the provider having answered, the report
\* shows the healthy icon for gate status "OK", the unhealthy icon for
\* "ERROR" and the warning icon for any other or an absent status, and the
\* exit code is 1 exactly when the gate status fetched for it is "ERROR".
C5_GateIconAndExitCode ==
    (sn_pc = "done" /\ SonarAnswered) =>
        /\ sn_report # <<>>
        /\ sn_report[1].gate_icon =
             (CASE qg_status[1] = "OK" -> "check"
                [] qg_status[1] = "ERROR" -> "cross"
                [] OTHER -> "warning")
        /\ qg_exit # <<>>
        /\ (sn_ret = <<1>>) <=> (qg_exit[1] = "ERROR")
        /\ (sn_ret = <<0>>) <=> (qg_exit[1] # "ERROR")

\* C7: the coverage formatting never fails; a value >= 80 is the good tier,
\* >= 60 and < 80 the warn tier, < 60 the poor tier; coverage that is
\* missing (measure absent, or present without a value) is the "no data"
\* tier, at project level and per file.
C7_CoverageTiers ==
    cv_out # <<>> =>
      LET o == cv_out[1] IN
        /\ ~o.raised
        /\ cv_in.kind \in {"absent", "novalue"} => o.tier = "nodata"
        /\ cv_in.kind = "value" =>
             o.tier = (IF cv_in.whole >= 80 THEN "good"
                       ELSE IF cv_in.whole >= 60 THEN "warn"
                       ELSE "poor")

\* C10: in a printed report with file entries, the lines with data come
\* first, each group is in lexicographic order of path, one blank line
\* separates the groups exactly when both are non-empty, and With Coverage +
\* Without Coverage = Total Files = the number of entries.
C10_FileSectionOrder ==
    (sn_report # <<>> /\ sn_report[1].files.has_files) =>
      LET f == sn_report[1].files
          L == f.lines
          blanks == {i \in 1..Len(L) : L[i].kind = "blank"}
      IN  /\ \A i, j \in 1..Len(L) :
                (i < j /\ L[j].kind = "with") => L[i].kind = "with"
          /\ \A i, j \in 1..Len(L) :
                (i < j /\ L[i].kind = L[j].kind /\ L[i].kind # "blank") =>
                   ~StrLess(OrdSeq(L[j].path), OrdSeq(L[i].path))
          /\ Cardinality(blanks) =
               (IF f.with_coverage > 0 /\ f.without_coverage > 0 THEN 1 ELSE 0)
          /\ \A i \in blanks : i = f.with_coverage + 1
          /\ Len(L) = f.total + Cardinality(blanks)
          /\ f.with_coverage + f.without_coverage = f.total
          /\ f.total = Len(coverage_detail[1])

(***************************************************************************)
(* tools/status.py                                                         *)
(***************************************************************************)

\* What subprocess.run can do: the child ends with a return code (negative
\* when a signal killed it), or subprocess.run raises (no interpreter, ...).
ReturnCodes == (0 - 1)..MaxReturnCode

ChildOutcomes ==
    [kind : {"exit"}, code : ReturnCodes] \cup {[kind |-> "raise", code |-> 0]}

\* run_tool: the child's return code, or 1 when subprocess.run raised
run_tool(outcome) ==
    IF outcome.kind = "exit" THEN outcome.code ELSE 1

\* what run_tool prints on stderr
run_tool_err(outcome, tool) ==
    IF outcome.kind = "exit" THEN <<>> ELSE <<"Error running " \o tool>>

\* all(code == 0 for code in exit_codes) written as any(...)
all_passed_any(codes) ==
    \E i \in 1..Len(codes) : codes[i] = 0

\* all(code == 0 for code in exit_codes)
all_passed(codes) ==
    \A i \in 1..Len(codes) : codes[i] = 0

\* sonar_idx without the skip_ci case
sonar_idx_fixed(skip) == 1

\* sonar_idx = 0 if args.skip_ci else 1   (a Python, 0-based, index)
sonar_idx(skip) == IF skip THEN 0 ELSE 1

\* Python list[idx] for idx >= 0: <<value>>, or <<>> for an IndexError
ListGet(list, idx) ==
    IF idx + 1 <= Len(list) THEN <<list[idx + 1]>> ELSE <<>>

StatusText(code) == IF code = 0 THEN "PASSED" ELSE "FAILED"

\* a main that goes straight to the summary once the CI check has failed
AfterCI_shortcircuit(code) == IF code = 0 THEN "check_sonar" ELSE "summary"

\* the position after the CI block (line 89): the SonarCloud block at
\* line 92, whatever ci_exit is
AfterCI(code) == "check_sonar"

InitStatus ==
    /\ IdleCI /\ IdleFormatRun /\ IdleSonar /\ IdleCoverage
    /\ skip_ci \in BOOLEAN
    /\ skip_sonarcloud \in BOOLEAN
    /\ st_pc = "start"
    /\ exit_codes = <<>>
    /\ ci_exit = <<>>
    /\ sonar_exit = <<>>
    /\ st_out = <<>>
    /\ st_err = <<>>
    /\ st_ret = <<>>

\* lines 74-82: exit_codes = [] and the header
StHeader ==
    /\ st_pc = "start"
    /\ exit_codes' = <<>>
    /\ st_out' = st_out \o <<"PROJECT STATUS CHECK">>
    /\ st_pc' = "check_ci"
    /\ UNCHANGED <<skip_ci, skip_sonarcloud, ci_exit, sonar_exit, st_err, st_ret>>
    /\ UNCHANGED <<ciVars, frVars, snVars, cvVars>>

\* line 85, flag set: the CI block is skipped
StSkipCI ==
    /\ st_pc = "check_ci"
    /\ skip_ci
    /\ st_pc' = "check_sonar"
    /\ UNCHANGED <<skip_ci, skip_sonarcloud, exit_codes, ci_exit, sonar_exit,
                   st_out, st_err, st_ret>>
    /\ UNCHANGED <<ciVars, frVars, snVars, cvVars>>

\* lines 85-88: section header, then run_tool starts the ci_check child
StStartCI ==
    /\ st_pc = "check_ci"
    /\ ~skip_ci
    /\ st_out' = st_out \o <<"GITHUB ACTIONS CI">>
    /\ st_pc' = "ci_running"
    /\ UNCHANGED <<skip_ci, skip_sonarcloud, exit_codes, ci_exit, sonar_exit,
                   st_err, st_ret>>
    /\ UNCHANGED <<ciVars, frVars, snVars, cvVars>>

\* lines 88-89: subprocess.run is over; ci_exit is bound and appended
StFinishCI ==
    /\ st_pc = "ci_running"
    /\ \E outcome \in ChildOutcomes :
         LET r == run_tool(outcome) IN
           /\ st_err' = st_err \o run_tool_err(outcome, "ci_check.py")
           /\ ci_exit' = <<r>>
           /\ exit_codes' = Append(exit_codes, r)
           /\ st_pc' = AfterCI(r)
    /\ UNCHANGED <<skip_ci, skip_sonarcloud, sonar_exit, st_out, st_ret>>
    /\ UNCHANGED <<ciVars, frVars, snVars, cvVars>>

\* line 92, flag set: the SonarCloud block is skipped
StSkipSonar ==
    /\ st_pc = "check_sonar"
    /\ skip_sonarcloud
    /\ st_pc' = "summary"
    /\ UNCHANGED <<skip_ci, skip_sonarcloud, exit_codes, ci_exit, sonar_exit,
                   st_out, st_err, st_ret>>
    /\ UNCHANGED <<ciVars, frVars, snVars, cvVars>>

\* lines 92-95: section header, then run_tool starts the sonarcloud_check child
StStartSonar ==
    /\ st_pc = "check_sonar"
    /\ ~skip_sonarcloud
    /\ st_out' = st_out \o <<"SONARCLOUD ANALYSIS">>
    /\ st_pc' = "sonar_running"
    /\ UNCHANGED <<skip_ci, skip_sonarcloud, exit_codes, ci_exit, sonar_exit,
                   st_err, st_ret>>
    /\ UNCHANGED <<ciVars, frVars, snVars, cvVars>>

\* lines 95-99
StFinishSonar ==
    /\ st_pc = "sonar_running"
    /\ \E outcome \in ChildOutcomes :
         LET r == run_tool(outcome) IN
           /\ st_err' = st_err \o run_tool_err(outcome, "sonarcloud_check.py")
           /\ sonar_exit' = <<r>>
           /\ exit_codes' = Append(exit_codes, r)
           /\ st_pc' = "summary"
    /\ UNCHANGED <<skip_ci, skip_sonarcloud, ci_exit, st_out, st_ret>>
    /\ UNCHANGED <<ciVars, frVars, snVars, cvVars>>

\* lines 117-123: the per-check lines of the failure summary; <<>> stands
\* for an IndexError raised by one of the two subscripts
SummaryLines ==
    LET ci  == IF skip_ci THEN <<0>> ELSE ListGet(exit_codes, 0)
        sn  == IF skip_sonarcloud THEN <<0>>
               ELSE ListGet(exit_codes, sonar_idx(skip_ci))
        ciL == IF skip_ci THEN <<>> ELSE <<"CI: " \o StatusText(ci[1])>>
        snL == IF skip_sonarcloud THEN <<>>
               ELSE <<"SonarCloud: " \o StatusText(sn[1])>>
    IN  [raised  |-> (ci = <<>>) \/ (sn = <<>>),
         printed |-> IF ci = <<>> THEN <<>>
                     ELSE IF sn = <<>> THEN ciL
                     ELSE ciL \o snL]

\* lines 101-126: the overall verdict
StSummary ==
    /\ st_pc = "summary"
    /\ IF all_passed(exit_codes)
         THEN /\ st_out' = st_out \o <<"OVERALL STATUS", "All checks passed!">>
              /\ st_ret' = <<0>>
              /\ st_pc' = "done"
         ELSE LET s == SummaryLines IN
              /\ st_out' = st_out \o <<"OVERALL STATUS", "Some checks failed!">>
                                  \o s.printed
              /\ IF s.raised
                   THEN st_ret' = <<>> /\ st_pc' = "crashed"
                   ELSE st_ret' = <<1>> /\ st_pc' = "done"
    /\ UNCHANGED <<skip_ci, skip_sonarcloud, exit_codes, ci_exit, sonar_exit,
                   st_err>>
    /\ UNCHANGED <<ciVars, frVars, snVars, cvVars>>

NextStatus ==
    \/ StHeader
    \/ StSkipCI
    \/ StStartCI
    \/ StFinishCI
    \/ StSkipSonar
    \/ StStartSonar
    \/ StFinishSonar
    \/ StSummary

SpecStatus == InitStatus /\ [][NextStatus]_vars

(***************************************************************************)
(* Properties of tools/status.py                                           *)
(***************************************************************************)
StEnded == st_pc \in {"done", "crashed"}

\* every sub-check that was run returned exit code 0
EveryRunCheckPassed ==
    /\ skip_ci \/ ci_exit = <<0>>
    /\ skip_sonarcloud \/ sonar_exit = <<0>>

\* C1: when status.py main ends, it has returned 0 and printed "All checks
\* passed!" exactly when every sub-check that was run returned 0 (also when
\* both were skipped); in every other case it has returned 1.
C1_CombinedVerdict ==
    StEnded =>
        /\ st_pc = "done"
        /\ IF EveryRunCheckPassed
             THEN st_ret = <<0>> /\ InList("All checks passed!", st_out)
             ELSE st_ret = <<1>> /\ ~InList("All checks passed!", st_out)

\* C1 witness: both checks ran, CI passed, SonarCloud did not, verdict 1
C1_Witness ==
    /\ st_pc = "done"
    /\ ~skip_ci /\ ~skip_sonarcloud
    /\ ci_exit = <<0>> /\ sonar_exit = <<2>>
    /\ st_ret = <<1>>

\* C2: the subscripts of exit_codes never raise, and a failure summary holds
\* the CI line iff CI was not skipped, FAILED iff ci_check's own code was
\* non-zero, and the SonarCloud line iff SonarCloud was not skipped, FAILED
\* iff sonarcloud_check's own code was non-zero.
C2_SummaryNamesRightCheck ==
    /\ st_pc # "crashed"
    /\ (st_pc = "done" /\ st_ret = <<1>>) =>
          /\ InList("CI: FAILED", st_out) <=> (~skip_ci /\ ci_exit # <<0>>)
          /\ InList("CI: PASSED", st_out) <=> (~skip_ci /\ ci_exit = <<0>>)
          /\ InList("SonarCloud: FAILED", st_out)
                <=> (~skip_sonarcloud /\ sonar_exit # <<0>>)
          /\ InList("SonarCloud: PASSED", st_out)
                <=> (~skip_sonarcloud /\ sonar_exit = <<0>>)

\* C2 witness: CI skipped, so the SonarCloud code sits at index 0, and failed
C2_Witness ==
    /\ st_pc = "done"
    /\ skip_ci /\ ~skip_sonarcloud
    /\ InList("SonarCloud: FAILED", st_out)

CIFinished == skip_ci \/ ci_exit # <<>>
SonarFinished == skip_sonarcloud \/ sonar_exit # <<>>

\* C3: the sub-checks run one after the other without short-circuit: the
\* SonarCloud child is started only once the CI child has finished, nothing
\* of the SonarCloud block happens while the CI child runs, and the summary
\* is reached and printed only after every non-skipped sub-check has
\* finished, whatever the CI child returned and also when it could not be
\* launched.
C3_SequentialNoShortCircuit ==
    /\ st_pc = "sonar_running" => CIFinished
    /\ st_pc = "ci_running" =>
          (sonar_exit = <<>> /\ ~InList("SONARCLOUD ANALYSIS", st_out))
    /\ (st_pc = "summary" \/ StEnded \/ InList("OVERALL STATUS", st_out)) =>
          (CIFinished /\ SonarFinished)
    /\ StEnded => st_ret \in {<<0>>, <<1>>}

\* C3 witness: the CI child could not be launched, SonarCloud still ran
C3_Witness ==
    /\ st_pc = "done"
    /\ InList("Error running ci_check.py", st_err)
    /\ ci_exit = <<1>>
    /\ sonar_exit # <<>>

=============================================================================
